---- MODULE Spec2Model ----
(***************************************************************************)
(* mailcopy: copy every message of every IMAP mailbox into one archive.    *)
(*                                                                         *)
(* The model follows src/src/mail.rs (write_messages, fetch_messages) and  *)
(* src/src/main.rs (main).  main.rs:114-135 holds, line for line, the same *)
(* folder loop as fetch_messages (mail.rs:82-102); the variable `entry`    *)
(* says which of the two orchestrators is running.  The session, the       *)
(* archive writer and the logger are the environment: each call on them    *)
(* draws its outcome (Ok / Err, and the data returned) nondeterministically*)
(* and is recorded in `calls`.                                             *)
(***************************************************************************)
EXTENDS Integers, Sequences, FiniteSets, TLC

VARIABLES
    entry,    \* "main" | "fetch_messages": the orchestrator that is running
    pc,       \* position of the orchestrator
    fm,       \* locals of the folder loop (fetch_messages / main)
    wm,       \* locals of write_messages
    size,     \* main.rs:125 / mail.rs:92: value returned by write_messages
    archive,  \* entries appended to the archive writer, in order
    log,      \* records emitted through the log macros, in order
    calls,    \* calls made on the session, the file system and the archive
    result,   \* what the orchestrator returned
    auth,     \* main.rs:80-89: the credentials main has not yet handed to login
    delta,    \* end - start, in whole seconds (TimeDelta::num_seconds)
    elapsed   \* main.rs:138: the formatted duration, a sequence of characters

vars == <<entry, pc, fm, wm, size, archive, log, calls, result, auth, delta, elapsed>>

----------------------------------------------------------------------------
(* Bounds of the model. *)

MaxFolders == 2
MaxMessages == 2

(* The names the listing may return, in listing order. *)
FolderNames == <<"INBOX", "Archive", "Trash", "Sent">>

(* Message bodies (bytes): "hello" and "world". *)
Bodies == { <<104, 101, 108, 108, 111>>, <<119, 111, 114, 108, 100>> }

----------------------------------------------------------------------------
(* Option<&[u8]> as returned by Fetch::body(). *)

None == [some |-> FALSE, body |-> <<>>]
Some(b) == [some |-> TRUE, body |-> b]

Messages == {None} \cup {Some(b) : b \in Bodies}

(* The results session.fetch("1:*", "RFC822") may return. *)
FetchResults == UNION {[1..n -> Messages] : n \in 0..MaxMessages}

(* The results session.list(Some(""), Some("*")) may return. *)
ListResults == {SubSeq(FolderNames, 1, n) : n \in 0..MaxFolders}

----------------------------------------------------------------------------
(* Content fingerprint and entry path, mail.rs:33-42. *)

RECURSIVE ByteSum(_)
ByteSum(s) == IF s = <<>> THEN 0 ELSE Head(s) + ByteSum(Tail(s))

RECURSIVE WeightedSum(_, _)
WeightedSum(s, k) == IF s = <<>> THEN 0 ELSE k * Head(s) + WeightedSum(Tail(s), k + 1)

(* Sha256::new / update / finalize.  SHA-256 itself is not computed here:  *)
(* the digest is a fixed two-byte function of the body bytes and of        *)
(* nothing else, which is all the callers rely on.                         *)
Sha256(body) == <<ByteSum(body) % 256, WeightedSum(body, 1) % 256>>

HexDigits == <<"0", "1", "2", "3", "4", "5", "6", "7",
               "8", "9", "a", "b", "c", "d", "e", "f">>

(* hex::encode: two lowercase hexadecimal digits per byte. *)
RECURSIVE HexEncode(_)
HexEncode(bytes) ==
    IF bytes = <<>> THEN ""
    ELSE HexDigits[(Head(bytes) \div 16) + 1] \o HexDigits[(Head(bytes) % 16) + 1]
         \o HexEncode(Tail(bytes))

(* format!("{hex}.eml") *)
Filename(hex) == hex \o ".eml"

(* Path::new(name).join(filename): the path's components. *)
PathJoin(name, filename) == <<name, filename>>

(* header.set_mode(0o755) *)
Mode0755 == 493

----------------------------------------------------------------------------
(* Records of the environment. *)

Call(op, arg, ok, ret) == [op |-> op, arg |-> arg, ok |-> ok, ret |-> ret]

LogRecord(level, event, index, count, name, bytes) ==
    [level |-> level, event |-> event, index |-> index, count |-> count,
     name |-> name, bytes |-> bytes]

Running == [kind |-> "Running", error |-> "", total |-> 0]
Ok(total) == [kind |-> "Ok", error |-> "", total |-> total]
Err(error) == [kind |-> "Err", error |-> error, total |-> 0]
Exit(code) == [kind |-> "Exit", error |-> "", total |-> code]

InitFM == [messages |-> <<>>, count |-> 0, progress |-> 0, total |-> 0,
           it |-> 1, index |-> 0, name |-> ""]

InitWM == [messages |-> <<>>, count |-> 0, progress |-> 0, total |-> 0,
           it |-> 1, name |-> ""]

(* Option::or *)
OptionOr(a, b) == IF a.some THEN a ELSE b

Credentials == {None, Some(<<117>>)}

(* The credentials main reads: arguments.authentication.username and       *)
(* .password (arguments.rs:42-46), env::var(IMAP_USERNAME) and             *)
(* env::var(IMAP_PASSWORD).ok() (main.rs:80-81), and the locals `username` *)
(* and `password` made of them.  login takes the locals by value           *)
(* (main.rs:89) and nothing reads any of them afterwards: the record is    *)
(* NoAuth from then on.                                                    *)
NoAuth == [argUsername |-> None, envUsername |-> None,
           argPassword |-> None, envPassword |-> None,
           username |-> None, password |-> None]

AuthInputs ==
    {[NoAuth EXCEPT !.argUsername = au, !.envUsername = eu,
                    !.argPassword = ap, !.envPassword = ep] :
        au \in Credentials, eu \in Credentials, ap \in Credentials, ep \in Credentials}

(* main starts at the credentials (main.rs:80); what precedes them          *)
(* (argument parsing, logging, TLS, connect: main.rs:59-78) either fails    *)
(* before anything below happens or leaves no state.  fetch_messages       *)
(* starts at its listing call.                                             *)
Init ==
    /\ entry \in {"main", "fetch_messages"}
    /\ pc = IF entry = "main" THEN "credentials" ELSE "list"
    /\ fm = InitFM
    /\ wm = InitWM
    /\ size = 0
    /\ archive = <<>>
    /\ log = <<>>
    /\ calls = <<>>
    /\ result = Running
    /\ auth \in IF entry = "main" THEN AuthInputs ELSE {NoAuth}
    /\ delta = 0
    /\ elapsed = <<>>

----------------------------------------------------------------------------
(* main, before the folder loop: main.rs:80-103. *)

(* ResolveCredentials with `&&` for `||` in the test. *)
ResolveCredentials_And ==
    /\ pc = "credentials"
    /\ LET username == OptionOr(auth.argUsername, auth.envUsername)
           password == OptionOr(auth.argPassword, auth.envPassword)
       IN  /\ auth' = [auth EXCEPT !.username = username, !.password = password]
           /\ IF ~username.some /\ ~password.some
              THEN /\ log' = Append(log, LogRecord("error", "credentials", 0, 0, "", 0))
                   /\ result' = Exit(1)
                   /\ pc' = "done"
              ELSE /\ pc' = "login"
                   /\ UNCHANGED <<log, result>>
    /\ UNCHANGED <<delta, elapsed, entry, fm, wm, size, archive, calls>>

(* main.rs:80-87: resolve the credentials; exit(1) when one is missing. *)
ResolveCredentials ==
    /\ pc = "credentials"
    /\ LET username == OptionOr(auth.argUsername, auth.envUsername)
           password == OptionOr(auth.argPassword, auth.envPassword)
       IN  /\ auth' = [auth EXCEPT !.username = username, !.password = password]
           /\ IF ~username.some \/ ~password.some
              THEN /\ log' = Append(log, LogRecord("error", "credentials", 0, 0, "", 0))
                   /\ result' = Exit(1)
                   /\ pc' = "done"
              ELSE /\ pc' = "login"
                   /\ UNCHANGED <<log, result>>
    /\ UNCHANGED <<delta, elapsed, entry, fm, wm, size, archive, calls>>

(* main.rs:89: client.login(..).map_err(..)? *)
Login ==
    /\ pc = "login"
    /\ \E ok \in BOOLEAN :
          /\ calls' = Append(calls, Call("login", "", ok, <<>>))
          /\ IF ok
             THEN pc' = "open" /\ UNCHANGED result
             ELSE pc' = "done" /\ result' = Err("login")
    /\ auth' = NoAuth
    /\ UNCHANGED <<delta, elapsed, entry, fm, wm, size, archive, log>>

(* main.rs:91-103: File::options().create(true).write(true).truncate(true) *)
(* .open(path)?, then the ZipWriter over it.                               *)
OpenOutput ==
    /\ pc = "open"
    /\ \E ok \in BOOLEAN :
          /\ calls' = Append(calls, Call("open", "", ok, <<>>))
          /\ IF ok
             THEN pc' = "list" /\ UNCHANGED result
             ELSE pc' = "done" /\ result' = Err("open")
    /\ UNCHANGED <<auth, delta, elapsed, entry, fm, wm, size, archive, log>>

----------------------------------------------------------------------------
(* The folder loop: mail.rs:72-111 (fetch_messages), main.rs:105-135. *)

(* mail.rs:74-80: session.list(Some(""), Some("*"))?, count, progress bar. *)
List ==
    /\ pc = "list"
    /\ \E ok \in BOOLEAN, names \in ListResults :
          IF ok
          THEN /\ calls' = Append(calls, Call("list", "", TRUE, names))
               /\ fm' = [fm EXCEPT !.messages = names, !.count = Len(names),
                                   !.progress = 0, !.total = 0, !.it = 1]
               /\ pc' = "for"
               /\ UNCHANGED result
          ELSE /\ calls' = Append(calls, Call("list", "", FALSE, <<>>))
               /\ result' = Err("list")
               /\ pc' = "done"
               /\ UNCHANGED fm
    /\ UNCHANGED <<auth, delta, elapsed, entry, wm, size, archive, log>>

(* ForName walking the listing from its end. *)
ForName_Reversed ==
    /\ pc = "for"
    /\ fm.it <= Len(fm.messages)
    /\ fm' = [fm EXCEPT !.index = fm.progress + 1,
                        !.name = fm.messages[Len(fm.messages) - fm.it + 1],
                        !.it = fm.it + 1]
    /\ pc' = "examine"
    /\ UNCHANGED <<auth, delta, elapsed, entry, wm, size, archive, log, calls, result>>

(* mail.rs:82-86: the next name of the listing; index and the bar's message. *)
ForName ==
    /\ pc = "for"
    /\ fm.it <= Len(fm.messages)
    /\ fm' = [fm EXCEPT !.index = fm.progress + 1, !.name = fm.messages[fm.it],
                        !.it = fm.it + 1]
    /\ pc' = "examine"
    /\ UNCHANGED <<auth, delta, elapsed, entry, wm, size, archive, log, calls, result>>

(* mail.rs:88: session.examine(name) returned Ok. *)
ExamineOk ==
    /\ calls' = Append(calls, Call("examine", fm.name, TRUE, <<>>))
    /\ pc' = "fetch"
    /\ UNCHANGED <<fm, log, result>>

(* ExamineErr with the error matched like the one of the fetch: warn,      *)
(* progress.inc(1), next name.                                             *)
ExamineErr_Absorbed ==
    /\ calls' = Append(calls, Call("examine", fm.name, FALSE, <<>>))
    /\ log' = Append(log, LogRecord("warn", "skip_folder", fm.index, fm.count, fm.name, 0))
    /\ fm' = [fm EXCEPT !.progress = fm.progress + 1]
    /\ pc' = "for"
    /\ UNCHANGED result

(* mail.rs:88: session.examine(name)? returned Err: `?` returns it. *)
ExamineErr ==
    /\ calls' = Append(calls, Call("examine", fm.name, FALSE, <<>>))
    /\ result' = Err("examine")
    /\ pc' = "done"
    /\ UNCHANGED <<fm, log>>

Examine ==
    /\ pc = "examine"
    /\ ExamineOk \/ ExamineErr
    /\ UNCHANGED <<auth, delta, elapsed, entry, wm, size, archive>>

(* mail.rs:90-92 and 22-28: session.fetch("1:*", "RFC822") returned        *)
(* Ok(messages); write_messages is entered with them.                      *)
FetchOk(messages) ==
    /\ calls' = Append(calls, Call("fetch", fm.name, TRUE, messages))
    /\ wm' = [messages |-> messages, count |-> Len(messages), progress |-> 0,
              total |-> 0, it |-> 1, name |-> fm.name]
    /\ pc' = "write"
    /\ UNCHANGED <<fm, log, result>>

(* FetchErr with the error returned by `?` instead of matched. *)
FetchErr_Propagated ==
    /\ calls' = Append(calls, Call("fetch", fm.name, FALSE, <<>>))
    /\ result' = Err("fetch")
    /\ pc' = "done"
    /\ UNCHANGED <<fm, wm, log>>

(* FetchErr with the fetch issued again after the warning. *)
FetchErr_Retried ==
    /\ calls' = Append(calls, Call("fetch", fm.name, FALSE, <<>>))
    /\ log' = Append(log, LogRecord("warn", "skip_folder", fm.index, fm.count, fm.name, 0))
    /\ pc' = "fetch"
    /\ UNCHANGED <<fm, wm, result>>

(* mail.rs:98-101: the fetch returned Err: warn, progress.inc(1). *)
FetchErr ==
    /\ calls' = Append(calls, Call("fetch", fm.name, FALSE, <<>>))
    /\ log' = Append(log, LogRecord("warn", "skip_folder", fm.index, fm.count, fm.name, 0))
    /\ fm' = [fm EXCEPT !.progress = fm.progress + 1]
    /\ pc' = "for"
    /\ UNCHANGED <<wm, result>>

Fetch ==
    /\ pc = "fetch"
    /\ \/ \E messages \in FetchResults : FetchOk(messages)
       \/ FetchErr
    /\ UNCHANGED <<auth, delta, elapsed, entry, size, archive>>

----------------------------------------------------------------------------
(* write_messages: mail.rs:22-70. *)

(* mail.rs:44-50: the entry builder.append_data(&mut header, path, body)   *)
(* appends: the header's size and mode, the path and the data.             *)
Entry(path, body) ==
    [path |-> path, data |-> body, size |-> Len(body), mode |-> Mode0755]

(* mail.rs:33-42: the path of a message body under the folder `name`. *)
EntryPath(name, body) == PathJoin(name, Filename(HexEncode(Sha256(body))))

(* AppendOk with the file named after the message's position. *)
AppendOk_NamedByIndex ==
    LET index == wm.progress + 1
        body == wm.messages[wm.it].body
        path == PathJoin(wm.name, Filename(HexEncode(<<index>>)))
    IN  /\ calls' = Append(calls, Call("append_data", path, TRUE, <<>>))
        /\ archive' = Append(archive, Entry(path, body))
        /\ log' = Append(log, LogRecord("debug", "message", index, wm.count, wm.name, Len(body)))
        /\ wm' = [wm EXCEPT !.total = wm.total + Len(body),
                            !.progress = wm.progress + 1,
                            !.it = wm.it + 1]
        /\ UNCHANGED <<pc, result>>

(* The bodies of messages[1..n], concatenated. *)
RECURSIVE BodiesUpTo(_, _)
BodiesUpTo(messages, n) ==
    IF n = 0 THEN <<>> ELSE BodiesUpTo(messages, n - 1) \o messages[n].body

(* AppendOk with one digest kept across the loop: each file is named after *)
(* all the bodies hashed so far.                                           *)
AppendOk_RunningDigest ==
    LET index == wm.progress + 1
        body == wm.messages[wm.it].body
        path == EntryPath(wm.name, BodiesUpTo(wm.messages, wm.it))
    IN  /\ calls' = Append(calls, Call("append_data", path, TRUE, <<>>))
        /\ archive' = Append(archive, Entry(path, body))
        /\ log' = Append(log, LogRecord("debug", "message", index, wm.count, wm.name, Len(body)))
        /\ wm' = [wm EXCEPT !.total = wm.total + Len(body),
                            !.progress = wm.progress + 1,
                            !.it = wm.it + 1]
        /\ UNCHANGED <<pc, result>>

(* AppendOk with a body already written into this folder not counted      *)
(* again.                                                                  *)
AppendOk_DuplicateNotCounted ==
    LET index == wm.progress + 1
        body == wm.messages[wm.it].body
        path == EntryPath(wm.name, body)
        seen == \E i \in 1..(wm.it - 1) : wm.messages[i] = Some(body)
    IN  /\ calls' = Append(calls, Call("append_data", path, TRUE, <<>>))
        /\ archive' = Append(archive, Entry(path, body))
        /\ log' = Append(log, LogRecord("debug", "message", index, wm.count, wm.name, Len(body)))
        /\ wm' = [wm EXCEPT !.total = IF seen THEN wm.total ELSE wm.total + Len(body),
                            !.progress = wm.progress + 1,
                            !.it = wm.it + 1]
        /\ UNCHANGED <<pc, result>>

(* mail.rs:33-58 and 63: the message has a body and append_data returned   *)
(* Ok: the entry is in the archive, total += size, debug!, set_message,    *)
(* progress.inc(1).                                                        *)
AppendOk ==
    LET index == wm.progress + 1
        body == wm.messages[wm.it].body
        path == EntryPath(wm.name, body)
    IN  /\ calls' = Append(calls, Call("append_data", path, TRUE, <<>>))
        /\ archive' = Append(archive, Entry(path, body))
        /\ log' = Append(log, LogRecord("debug", "message", index, wm.count, wm.name, Len(body)))
        /\ wm' = [wm EXCEPT !.total = wm.total + Len(body),
                            !.progress = wm.progress + 1,
                            !.it = wm.it + 1]
        /\ UNCHANGED <<pc, result>>

(* AppendErr with the error logged and the loop carrying on. *)
AppendErr_Swallowed ==
    LET index == wm.progress + 1
        body == wm.messages[wm.it].body
        path == EntryPath(wm.name, body)
    IN  /\ calls' = Append(calls, Call("append_data", path, FALSE, <<>>))
        /\ log' = Append(log, LogRecord("warn", "skip_message", index, wm.count, wm.name, 0))
        /\ wm' = [wm EXCEPT !.progress = wm.progress + 1, !.it = wm.it + 1]
        /\ UNCHANGED <<pc, result, archive>>

(* mail.rs:50 and 92: append_data returned Err: `?` returns it from        *)
(* write_messages, and `?` at the call returns it from the orchestrator.   *)
AppendErr ==
    LET body == wm.messages[wm.it].body
        path == EntryPath(wm.name, body)
    IN  /\ calls' = Append(calls, Call("append_data", path, FALSE, <<>>))
        /\ result' = Err("append_data")
        /\ pc' = "done"
        /\ UNCHANGED <<archive, log, wm>>

(* NoBody with progress.inc(1) inside the `if let` branch only. *)
NoBody_NoInc ==
    LET index == wm.progress + 1
    IN  /\ log' = Append(log, LogRecord("warn", "skip_message", index, wm.count, wm.name, 0))
        /\ wm' = [wm EXCEPT !.it = wm.it + 1]
        /\ UNCHANGED <<pc, result, archive, calls>>

(* mail.rs:59-63: the message has no body: warn!, progress.inc(1). *)
NoBody ==
    LET index == wm.progress + 1
    IN  /\ log' = Append(log, LogRecord("warn", "skip_message", index, wm.count, wm.name, 0))
        /\ wm' = [wm EXCEPT !.progress = wm.progress + 1, !.it = wm.it + 1]
        /\ UNCHANGED <<pc, result, archive, calls>>

(* mail.rs:30-64: one iteration of `for message in messages`. *)
WriteMessage ==
    /\ pc = "write"
    /\ wm.it <= Len(wm.messages)
    /\ IF wm.messages[wm.it].some
       THEN AppendOk \/ AppendErr
       ELSE NoBody
    /\ UNCHANGED <<auth, delta, elapsed, entry, fm, size>>

(* mail.rs:66-69 and 92: the loop is over; write_messages returns          *)
(* Ok(total), which the caller binds to `size`.                            *)
WriteMessagesReturn ==
    /\ pc = "write"
    /\ wm.it > Len(wm.messages)
    /\ size' = wm.total
    /\ pc' = "returned"
    /\ UNCHANGED <<auth, delta, elapsed, entry, fm, wm, archive, log, calls, result>>

(* FolderDone with `total = size` for `total += size`. *)
FolderDone_Assign ==
    /\ pc = "returned"
    /\ fm' = [fm EXCEPT !.total = size, !.progress = fm.progress + 1]
    /\ log' = Append(log, LogRecord("info", "folder", fm.index, fm.count, fm.name, size))
    /\ pc' = "for"
    /\ UNCHANGED <<auth, delta, elapsed, entry, wm, size, archive, calls, result>>

(* mail.rs:94-101: total += size; info!; progress.inc(1). *)
FolderDone ==
    /\ pc = "returned"
    /\ fm' = [fm EXCEPT !.total = fm.total + size, !.progress = fm.progress + 1]
    /\ log' = Append(log, LogRecord("info", "folder", fm.index, fm.count, fm.name, size))
    /\ pc' = "for"
    /\ UNCHANGED <<auth, delta, elapsed, entry, wm, size, archive, calls, result>>

----------------------------------------------------------------------------
(* Format for TimeDelta: main.rs:48-56.  Strings are sequences of          *)
(* one-character strings.                                                  *)

(* i64 `/` and `%`: the quotient truncates toward zero and the remainder   *)
(* has the sign of the dividend.                                           *)
TruncDiv(a, b) == IF a >= 0 THEN a \div b ELSE -((-a) \div b)
TruncRem(a, b) == IF a >= 0 THEN a % b ELSE -((-a) % b)

DecimalDigits == <<"0", "1", "2", "3", "4", "5", "6", "7", "8", "9">>

(* Display for a non-negative integer. *)
RECURSIVE Decimal(_)
Decimal(n) ==
    IF n < 10 THEN <<DecimalDigits[n + 1]>>
    ELSE Decimal(n \div 10) \o <<DecimalDigits[(n % 10) + 1]>>

(* Display for i64. *)
Display(n) == IF n < 0 THEN <<"-">> \o Decimal(-n) ELSE Decimal(n)

(* "{:0>2}": right-aligned in a width of at least 2, filled with '0'. *)
PadZero2(chars) == IF Len(chars) >= 2 THEN chars ELSE <<"0">> \o chars

(* Format with the hours wrapped at a day. *)
Format_HoursWrapped(num_seconds) ==
    LET seconds == TruncRem(num_seconds, 60)
        minutes == TruncRem(TruncDiv(num_seconds, 60), 60)
        hours == TruncRem(TruncDiv(TruncDiv(num_seconds, 60), 60), 24)
    IN  PadZero2(Display(hours)) \o <<":">> \o PadZero2(Display(minutes))
        \o <<":">> \o PadZero2(Display(seconds))

(* main.rs:49-55: format(&self), of a TimeDelta of num_seconds seconds. *)
Format(num_seconds) ==
    LET seconds == TruncRem(num_seconds, 60)
        minutes == TruncRem(TruncDiv(num_seconds, 60), 60)
        hours == TruncDiv(TruncDiv(num_seconds, 60), 60)
    IN  PadZero2(Display(hours)) \o <<":">> \o PadZero2(Display(minutes))
        \o <<":">> \o PadZero2(Display(seconds))

(* The durations end - start takes in a run of the folder loop. *)
RunDeltas == {0, 14249}

----------------------------------------------------------------------------
(* After the folder loop. *)

(* mail.rs:104-110: fetch_messages returns Ok((total, elapsed)); delta is  *)
(* the pair's second component.                                            *)
FetchMessagesReturn ==
    /\ entry = "fetch_messages"
    /\ pc = "for"
    /\ fm.it > Len(fm.messages)
    /\ \E d \in RunDeltas : delta' = d
    /\ result' = Ok(fm.total)
    /\ pc' = "done"
    /\ UNCHANGED <<auth, elapsed, entry, fm, wm, size, archive, log, calls>>

(* main.rs:137-141: the end-of-run summary. *)
Summary ==
    /\ entry = "main"
    /\ pc = "for"
    /\ fm.it > Len(fm.messages)
    /\ \E d \in RunDeltas : delta' = d /\ elapsed' = Format(d)
    /\ log' = log \o << LogRecord("info", "completed", 0, 0, "", 0),
                        LogRecord("info", "total", 0, 0, "", fm.total) >>
    /\ pc' = "finish"
    /\ UNCHANGED <<auth, entry, fm, wm, size, archive, calls, result>>

(* main.rs:143-147: writer.finish()?; Ok(()). *)
Finish ==
    /\ pc = "finish"
    /\ \E ok \in BOOLEAN :
          /\ calls' = Append(calls, Call("finish", "", ok, <<>>))
          /\ result' = IF ok THEN Ok(0) ELSE Err("finish")
    /\ pc' = "done"
    /\ UNCHANGED <<auth, delta, elapsed, entry, fm, wm, size, archive, log>>

----------------------------------------------------------------------------

Next ==
    \/ ResolveCredentials
    \/ Login
    \/ OpenOutput
    \/ List
    \/ ForName
    \/ Examine
    \/ Fetch
    \/ WriteMessage
    \/ WriteMessagesReturn
    \/ FolderDone
    \/ FetchMessagesReturn
    \/ Summary
    \/ Finish

Spec == Init /\ [][Next]_vars

----------------------------------------------------------------------------
(* Format on its own, as the test can_format_time_delta applies it         *)
(* (main.rs:156-161), over a range of durations.                           *)

MaxSeconds == 7300

(* Every duration up to MaxSeconds, the test's 14249, durations around a   *)
(* day and around a hundred hours, and some negative ones.                 *)
Deltas ==
    (0..MaxSeconds) \cup {14249, 86399, 86400, 90061, 359999, 360000, 363599}
    \cup {-1, -61, -3661}

FormatInit ==
    /\ entry = "can_format_time_delta"
    /\ pc = "format"
    /\ delta \in Deltas
    /\ elapsed = <<>>
    /\ fm = InitFM
    /\ wm = InitWM
    /\ size = 0
    /\ archive = <<>>
    /\ log = <<>>
    /\ calls = <<>>
    /\ result = Running
    /\ auth = NoAuth

(* main.rs:158: let elapsed = TimeDelta::seconds(..).format(); *)
FormatElapsed ==
    /\ pc = "format"
    /\ elapsed' = Format(delta)
    /\ pc' = "done"
    /\ UNCHANGED <<auth, delta, entry, fm, wm, size, archive, log, calls, result>>

FormatNext == FormatElapsed

FormatSpec == FormatInit /\ [][FormatNext]_vars

----------------------------------------------------------------------------
(* Vocabulary of the properties below. *)

Failed(op) == {k \in DOMAIN calls : calls[k].op = op /\ ~calls[k].ok}
Succeeded(op) == {k \in DOMAIN calls : calls[k].op = op /\ calls[k].ok}
Made(op) == {k \in DOMAIN calls : calls[k].op = op}

SummaryLogged == \E l \in DOMAIN log : log[l].event \in {"completed", "total"}

(* The last call of `op` among calls[1..k]. *)
LastBefore(op, k) ==
    CHOOSE j \in 1..k : calls[j].op = op /\ \A i \in (j + 1)..k : calls[i].op # op

IsOkAppend(c) == c.op = "append_data" /\ c.ok

(* The successful archive writes, in order: the k-th one appended          *)
(* archive[k].                                                             *)
OkAppends == SelectSeq(calls, IsOkAppend)

(* For each successful archive write among calls[k..], in order: the       *)
(* folder last selected and the messages last fetched before it.           *)
RECURSIVE WriteContexts(_, _, _)
WriteContexts(k, folder, fetched) ==
    IF k > Len(calls) THEN <<>>
    ELSE LET c == calls[k]
         IN  IF c.op = "examine" THEN WriteContexts(k + 1, c.arg, fetched)
             ELSE IF c.op = "fetch" THEN WriteContexts(k + 1, folder, c.ret)
             ELSE IF IsOkAppend(c)
                  THEN <<[folder |-> folder, fetched |-> fetched, path |-> c.arg]>>
                       \o WriteContexts(k + 1, folder, fetched)
                  ELSE WriteContexts(k + 1, folder, fetched)

RECURSIVE BodyBytes(_)
BodyBytes(messages) ==
    IF messages = <<>> THEN 0
    ELSE (IF Head(messages).some THEN Len(Head(messages).body) ELSE 0)
         + BodyBytes(Tail(messages))

WithBody(messages) == {i \in DOMAIN messages : messages[i].some}

LoopCompleted == fm.it > Len(fm.messages) /\ pc \in {"for", "finish", "done"}

----------------------------------------------------------------------------
(* C1: a folder whose read-only selection (examine) fails does not abort   *)
(* the run: no error is returned for it, and the run does not end at that *)
(* call unless the folder was the last one of the listing.                 *)
C1_ExamineFailureNotFatal ==
    \A k \in Failed("examine") :
        /\ ~(result.kind = "Err" /\ result.error = "examine")
        /\ k < Len(calls) \/ pc # "done" \/ LoopCompleted

(* C2: a failed archive write is the last thing the run does: the error is *)
(* what the orchestrator returns, nothing is written, selected, fetched or *)
(* finalized after it, and no end-of-run summary is logged.                *)
C2_WriteFailureIsFatal ==
    \A k \in Failed("append_data") :
        /\ k = Len(calls)
        /\ pc = "done"
        /\ result = Err("append_data")
        /\ ~SummaryLogged
        /\ Len(archive) = Cardinality(Succeeded("append_data"))

(* The write that fails is the third or later, in the second folder. *)
C2_Witness ==
    /\ Failed("append_data") # {}
    /\ Cardinality(Succeeded("append_data")) >= 2
    /\ Cardinality(Made("examine")) >= 2

(* C3: in main the archive is finalized exactly when the folder loop has   *)
(* run over every listed folder, and neither a folder-level failure        *)
(* (examine, fetch) nor a missing body keeps it from being finalized.      *)
C3_FinalizedIffLoopCompleted ==
    /\ Made("finish") # {} => LoopCompleted
    /\ (entry = "main" /\ pc = "done" /\ Succeeded("list") # {}
            /\ Failed("append_data") = {})
       => Made("finish") # {}

(* C4: a failed fetch is absorbed at its folder: one warning naming the    *)
(* folder, no archive entry, the grand total untouched, no error returned, *)
(* and the loop goes on to the next name of the listing.                   *)
C4_FetchFailureAbsorbed ==
    [][ (/\ Len(calls') = Len(calls) + 1
         /\ calls'[Len(calls')].op = "fetch"
         /\ ~calls'[Len(calls')].ok)
        => /\ Len(log') = Len(log) + 1
           /\ log'[Len(log')].level = "warn"
           /\ log'[Len(log')].name = fm.name
           /\ archive' = archive
           /\ fm'.total = fm.total
           /\ fm'.it = fm.it
           /\ fm'.progress = fm.progress + 1
           /\ result' = Running
           /\ pc' = "for" ]_vars

(* A fetch failed, the next folder was then selected, and the run ended Ok. *)
C4_Witness ==
    /\ pc = "done"
    /\ result.kind = "Ok"
    /\ \E k \in Failed("fetch") :
          /\ k < Len(calls)
          /\ calls[k + 1].op = "examine"
          /\ calls[k + 1].arg # calls[k].arg

(* C5: inside write_messages, after p messages have been processed: the    *)
(* progress counter is p, the archive writes of this folder are one per    *)
(* message with a body among them, and the running total is the sum of     *)
(* those bodies' lengths; on return p is the number of messages fetched.   *)
(* An error result never comes from a message without a body.              *)
C5_WriteMessagesCounts ==
    /\ pc \in {"write", "returned"} =>
          LET p == wm.progress
              done == SubSeq(wm.messages, 1, p)
              f == LastBefore("fetch", Len(calls))
          IN  /\ wm.it = p + 1
              /\ p <= wm.count
              /\ wm.count = Len(wm.messages)
              /\ Cardinality({k \in Succeeded("append_data") : k > f})
                    = Cardinality(WithBody(done))
              /\ wm.total = BodyBytes(done)
    /\ pc = "returned" =>
          /\ wm.progress = Len(wm.messages)
          /\ size = BodyBytes(wm.messages)
    /\ result.kind = "Err" /\ result.error = "append_data" =>
          wm.messages[wm.it].some

(* Two messages, the first without a body, the second written. *)
C5_Witness ==
    /\ pc = "returned"
    /\ Len(wm.messages) = 2
    /\ ~wm.messages[1].some
    /\ wm.messages[2].some
    /\ size = 5

(* <fingerprint>.eml of each body, as C6 expects it. *)
ExpectedFilename == [b \in Bodies |-> HexEncode(Sha256(b)) \o ".eml"]

(* C6: every archive entry sits at <folder>/<fingerprint(body)>.eml, where *)
(* the folder is the one selected when it was written and the fingerprint  *)
(* is the hexadecimal digest of the entry's own bytes; its bytes are a     *)
(* body the fetch of that folder returned, its size is their length, its   *)
(* mode is 0755; equal bodies get equal file names.                        *)
C6_EntryNaming ==
    LET written == WriteContexts(1, "", <<>>)
    IN  /\ Len(archive) = Len(written)
        /\ \A j \in DOMAIN archive :
              LET e == archive[j]
                  w == written[j]
              IN  /\ \E i \in DOMAIN w.fetched : w.fetched[i] = Some(e.data)
                  /\ e.path = <<w.folder, ExpectedFilename[e.data]>>
                  /\ e.path = w.path
                  /\ e.size = Len(e.data)
                  /\ e.mode = 493
        /\ \A j \in DOMAIN archive : \A i \in 1..(j - 1) :
              archive[i].data = archive[j].data => archive[i].path[2] = archive[j].path[2]

(* The same body written at different positions of different folders. *)
C6_Witness ==
    \E i, j \in DOMAIN archive :
        /\ archive[i].data = archive[j].data
        /\ archive[i].path[1] # archive[j].path[1]
        /\ \E m, n \in DOMAIN log :
              /\ log[m].event = "message" /\ log[n].event = "message"
              /\ log[m].name = archive[i].path[1] /\ log[n].name = archive[j].path[1]
              /\ log[m].index = 1 /\ log[n].index = 2

(* C7: two writes of the same body into the same folder go to the same     *)
(* path: the archive holds no two entries of one folder and one body that  *)
(* differ in anything (the later one stands for the earlier one).          *)
C7_IdempotentNaming ==
    LET written == OkAppends
    IN  \A j \in DOMAIN archive : \A i \in 1..(j - 1) :
            (archive[i].path[1] = archive[j].path[1] /\ archive[i].data = archive[j].data)
            => /\ archive[i] = archive[j]
               /\ written[i].arg = written[j].arg

(* The same body written twice into one folder. *)
C7_Witness ==
    \E i, j \in DOMAIN archive :
        /\ i < j
        /\ archive[i].path[1] = archive[j].path[1]
        /\ archive[i].data = archive[j].data

(* C8: a failed listing ends the run at once, before any select, fetch or  *)
(* write and without a summary; and it is the only failed session call     *)
(* that does: a failed examine or fetch is absorbed.                       *)
C8_OnlyListingAborts ==
    /\ Failed("list") # {} =>
          /\ result = Err("list")
          /\ Made("examine") \cup Made("fetch") \cup Made("append_data") = {}
          /\ archive = <<>>
          /\ ~SummaryLogged
    /\ result.kind = "Err" => result.error \notin {"examine", "fetch"}
    /\ \A k \in Failed("examine") \cup Failed("fetch") :
          \E l \in DOMAIN log : log[l].level = "warn" /\ log[l].name = calls[k].arg

(* The folders whose processing has ended: selected, and no longer being   *)
(* fetched or written.                                                     *)
FoldersEnded ==
    Cardinality(Made("examine")) - (IF pc \in {"fetch", "write", "returned"} THEN 1 ELSE 0)

(* C9: as long as no archive write has failed, the folder counter equals   *)
(* the number of folders whose processing has ended, however each ended,   *)
(* and never exceeds the number of listed folders.                         *)
C9_FolderCounter ==
    Failed("append_data") = {} =>
        /\ fm.progress = FoldersEnded
        /\ fm.progress <= fm.count

(* C10: neither total ever decreases (the per-folder one within a folder), *)
(* and the grand total changes only in the step that follows the return of *)
(* write_messages, never while messages are being iterated.                *)
C10_TotalsMonotone ==
    [][ /\ fm'.total >= fm.total
        /\ (pc = "write" => wm'.total >= wm.total)
        /\ (fm'.total # fm.total => pc = "returned" /\ pc' = "for") ]_vars

(* A second folder is being iterated with bytes already in both totals. *)
C10_Witness ==
    /\ pc = "write"
    /\ fm.total > 0
    /\ wm.total > 0
    /\ wm.it <= Len(wm.messages)

----------------------------------------------------------------------------
(* The end-to-end scenario of C11: the listing is [INBOX, Archive], INBOX  *)
(* holds "hello" twice, Archive holds "world", every call succeeded and    *)
(* the run has returned Ok.                                                *)
Hello == <<104, 101, 108, 108, 111>>
World == <<119, 111, 114, 108, 100>>

EndToEndRun ==
    /\ result.kind = "Ok"
    /\ \A k \in DOMAIN calls : calls[k].ok
    /\ \E k \in Made("list") : calls[k].ret = <<"INBOX", "Archive">>
    /\ \E k \in Made("fetch") :
          calls[k].arg = "INBOX" /\ calls[k].ret = <<Some(Hello), Some(Hello)>>
    /\ \E k \in Made("fetch") :
          calls[k].arg = "Archive" /\ calls[k].ret = <<Some(World)>>

(* The total the run reports: the "Total copy size" line of main, the      *)
(* first component of the pair fetch_messages returns.                     *)
ReportedTotal ==
    IF entry = "main"
    THEN log[CHOOSE l \in DOMAIN log : log[l].event = "total"].bytes
    ELSE result.total

EndToEndArchive ==
    /\ \E j \in DOMAIN archive :
          archive[j].path = <<"INBOX", ExpectedFilename[Hello]>> /\ archive[j].data = Hello
    /\ \E j \in DOMAIN archive :
          archive[j].path = <<"Archive", ExpectedFilename[World]>> /\ archive[j].data = World
    /\ \A j \in DOMAIN archive :
          archive[j].path \in {<<"INBOX", ExpectedFilename[Hello]>>,
                               <<"Archive", ExpectedFilename[World]>>}

(* C11 as stated: in the end-to-end run the archive holds                  *)
(* INBOX/<fingerprint("hello")>.eml with content "hello" and               *)
(* Archive/<fingerprint("world")>.eml with content "world", and the        *)
(* reported total is 10 bytes.                                             *)
C11_TotalIsTen ==
    EndToEndRun => EndToEndArchive /\ ReportedTotal = 10

(* C11 as amended: the same archive contents, and a reported total of 15   *)
(* bytes: each of the three writes counts its 5 bytes.                     *)
C11_EndToEnd ==
    EndToEndRun => EndToEndArchive /\ Len(archive) = 3 /\ ReportedTotal = 15

(* The end-to-end run has happened, under main. *)
C11_Witness ==
    EndToEndRun /\ entry = "main" /\ pc = "done"

----------------------------------------------------------------------------
(* Reading a formatted duration back. *)

(* The fields of a string, split at ':'. *)
RECURSIVE Fields(_)
Fields(chars) ==
    IF \A i \in DOMAIN chars : chars[i] # ":" THEN <<chars>>
    ELSE LET i == CHOOSE c \in DOMAIN chars :
                      chars[c] = ":" /\ \A b \in 1..(c - 1) : chars[b] # ":"
         IN  <<SubSeq(chars, 1, i - 1)>> \o Fields(SubSeq(chars, i + 1, Len(chars)))

IsNumber(chars) ==
    chars # <<>> /\ \A i \in DOMAIN chars : \E d \in 0..9 : DecimalDigits[d + 1] = chars[i]

(* The number a string of decimal digits denotes. *)
RECURSIVE NumberOf(_)
NumberOf(chars) ==
    IF chars = <<>> THEN 0
    ELSE 10 * NumberOf(SubSeq(chars, 1, Len(chars) - 1))
         + (CHOOSE d \in 0..9 : DecimalDigits[d + 1] = chars[Len(chars)])

(* C12: a duration of s >= 0 whole seconds formats as HH:MM:SS with        *)
(* HH = s div 3600 (not wrapped at 24), MM = (s div 60) mod 60 and         *)
(* SS = s mod 60: three fields of digits, MM and SS of exactly two digits  *)
(* and in 0..59, HH of at least two and zero-padded only up to two, and    *)
(* HH*3600 + MM*60 + SS = s; 14249 seconds format as 03:57:29.             *)
C12_FormatTimeDelta ==
    (pc = "done" /\ delta >= 0) =>
        LET f == Fields(elapsed)
        IN  /\ Len(f) = 3
            /\ \A i \in 1..3 : IsNumber(f[i]) /\ Len(f[i]) >= 2
            /\ Len(f[1]) > 2 => f[1][1] # "0"
            /\ Len(f[2]) = 2
            /\ Len(f[3]) = 2
            /\ NumberOf(f[1]) = delta \div 3600
            /\ NumberOf(f[2]) = (delta \div 60) % 60
            /\ NumberOf(f[3]) = delta % 60
            /\ NumberOf(f[2]) \in 0..59
            /\ NumberOf(f[3]) \in 0..59
            /\ NumberOf(f[1]) * 3600 + NumberOf(f[2]) * 60 + NumberOf(f[3]) = delta
            /\ delta = 14249 =>
                  elapsed = <<"0", "3", ":", "5", "7", ":", "2", "9">>

(* More than a day has been formatted: 90061 seconds as 25:01:01. *)
C12_Witness ==
    /\ pc = "done"
    /\ delta = 90061
    /\ elapsed = <<"2", "5", ":", "0", "1", ":", "0", "1">>

----------------------------------------------------------------------------
(* The order of the calls. *)

HasBody(message) == message.some

(* The names the listing call returned (none before it has succeeded). *)
Listing ==
    IF \E k \in DOMAIN calls : calls[k].op = "list" /\ calls[k].ok
    THEN calls[CHOOSE k \in DOMAIN calls : calls[k].op = "list" /\ calls[k].ok].ret
    ELSE <<>>

(* calls[k..] are in order, given that `i` folders have been selected so   *)
(* far, that the current folder is in `phase` ("idle": none or ended,      *)
(* "selected", "fetched") and that the messages with a body it fetched and *)
(* has not written yet are `pending`:                                      *)
(*  - a select is of the next name of the listing, once the folder before  *)
(*    has nothing left to write;                                           *)
(*  - a fetch is of the folder just selected, successfully;                *)
(*  - a write follows the successful fetch of its folder and is of the     *)
(*    first message not yet written.                                       *)
RECURSIVE InOrder(_, _, _, _, _)
InOrder(listing, k, i, phase, pending) ==
    IF k > Len(calls) THEN TRUE
    ELSE LET c == calls[k]
         IN  CASE c.op = "examine" ->
                     /\ phase # "selected"
                     /\ pending = <<>>
                     /\ i < Len(listing)
                     /\ c.arg = listing[i + 1]
                     /\ InOrder(listing, k + 1, i + 1,
                                IF c.ok THEN "selected" ELSE "idle", <<>>)
               [] c.op = "fetch" ->
                     /\ phase = "selected"
                     /\ c.arg = listing[i]
                     /\ IF c.ok
                        THEN InOrder(listing, k + 1, i, "fetched", SelectSeq(c.ret, HasBody))
                        ELSE InOrder(listing, k + 1, i, "idle", <<>>)
               [] c.op = "append_data" ->
                     /\ phase = "fetched"
                     /\ pending # <<>>
                     /\ c.arg = <<listing[i], ExpectedFilename[Head(pending).body]>>
                     /\ IF c.ok
                        THEN InOrder(listing, k + 1, i, "fetched", Tail(pending))
                        ELSE InOrder(listing, k + 1, i, "idle", <<>>)
               [] c.op = "list" -> i = 0 /\ InOrder(listing, k + 1, i, phase, pending)
               [] c.op = "finish" ->
                     /\ phase # "selected"
                     /\ pending = <<>>
                     /\ i = Len(listing)
                     /\ InOrder(listing, k + 1, i, phase, pending)
               [] OTHER -> InOrder(listing, k + 1, i, phase, pending)

(* C13: folders are processed one at a time in listing order and messages  *)
(* in fetch order: each select is of the next listed name and comes after  *)
(* every select, fetch and write of the folders before it; each write      *)
(* comes after the successful select and fetch of its own folder; and the  *)
(* writes of a folder are of its messages with a body, in fetch order.     *)
C13_SequentialOrder == [](InOrder(Listing, 1, 0, "idle", <<>>))

(* Two folders, each with two different bodies, all four written. *)
C13_Witness ==
    /\ Len(archive) = 4
    /\ archive[1].data # archive[2].data
    /\ archive[3].data # archive[4].data
    /\ archive[1].path[1] = archive[2].path[1]
    /\ archive[3].path[1] = archive[4].path[1]
    /\ archive[1].path[1] # archive[3].path[1]

(* C14: the listing is requested once, before anything is selected, and    *)
(* the loop works on that snapshot: every select and every fetch is of a   *)
(* listed name, no name is selected or fetched twice, a completed loop has *)
(* selected exactly the listed names, and no call that failed is made      *)
(* again.                                                                  *)
C14_NoRetry ==
    []( LET listing == Listing
        IN  /\ listing # <<>> => fm.messages = listing
            /\ \A k \in DOMAIN calls :
                  LET c == calls[k]
                  IN  /\ c.op = "list" =>
                            \A j \in 1..(k - 1) : calls[j].op # "list"
                      /\ c.op \in {"examine", "fetch", "append_data"} =>
                            \E l \in 1..(k - 1) : calls[l].op = "list" /\ calls[l].ok
                      /\ c.op \in {"examine", "fetch"} =>
                            /\ \E n \in DOMAIN listing : listing[n] = c.arg
                            /\ \A j \in 1..(k - 1) :
                                  ~(calls[j].op = c.op /\ calls[j].arg = c.arg)
                      /\ ~c.ok =>
                            \A j \in (k + 1)..Len(calls) :
                                ~(calls[j].op = c.op /\ calls[j].arg = c.arg)
            /\ (LoopCompleted /\ listing # <<>>) =>
                  \A n \in DOMAIN listing :
                      \E k \in DOMAIN calls : calls[k].op = "examine" /\ calls[k].arg = listing[n] )

(* The fetch of the first folder failed, the second folder was copied and  *)
(* the run ended Ok.                                                       *)
C14_Witness ==
    /\ result.kind = "Ok"
    /\ Cardinality(Made("examine")) = 2
    /\ \E k \in Failed("fetch") : calls[k].arg = Listing[1]
    /\ archive # <<>>

----------------------------------------------------------------------------
(* Byte accounting. *)

(* The body lengths of archive[1..n] written under `folder`, summed. *)
RECURSIVE FolderBytes(_, _)
FolderBytes(folder, n) ==
    IF n = 0 THEN 0
    ELSE (IF archive[n].path[1] = folder THEN Len(archive[n].data) ELSE 0)
         + FolderBytes(folder, n - 1)

(* The body lengths of archive[1..n], summed. *)
RECURSIVE ArchiveBytes(_)
ArchiveBytes(n) == IF n = 0 THEN 0 ELSE Len(archive[n].data) + ArchiveBytes(n - 1)

(* The per-folder totals logged in log[1..n], summed. *)
RECURSIVE ReturnedBytes(_)
ReturnedBytes(n) ==
    IF n = 0 THEN 0
    ELSE (IF log[n].event = "folder" THEN log[n].bytes ELSE 0) + ReturnedBytes(n - 1)

(* C15: the grand total is the sum of the per-folder totals returned so    *)
(* far; a per-folder total is the sum of the body lengths of the writes    *)
(* made for that folder, a body written twice counting twice; so at every  *)
(* folder boundary, and in what fetch_messages returns, the total is the   *)
(* sum of the body lengths of all the writes of the run.                   *)
C15_ByteAccounting ==
    []( /\ fm.total = ReturnedBytes(Len(log))
        /\ \A l \in DOMAIN log :
              log[l].event = "folder" => log[l].bytes = FolderBytes(log[l].name, Len(archive))
        /\ pc \in {"write", "returned"} =>
              /\ wm.total = FolderBytes(wm.name, Len(archive))
              /\ fm.total + wm.total = ArchiveBytes(Len(archive))
        /\ pc = "returned" => size = wm.total
        /\ pc \in {"for", "examine", "fetch", "finish"} => fm.total = ArchiveBytes(Len(archive))
        /\ (entry = "fetch_messages" /\ result.kind = "Ok") =>
              result.total = ArchiveBytes(Len(archive)) )

(* fetch_messages has returned a total that counts one body twice in one   *)
(* folder and a write of another folder.                                   *)
C15_Witness ==
    /\ entry = "fetch_messages"
    /\ result.kind = "Ok"
    /\ result.total = 15
    /\ Len(archive) = 3
    /\ archive[1] = archive[2]
    /\ archive[3].path[1] # archive[1].path[1]

----------------------------------------------------------------------------
(* C16: in main the two summary lines are logged at most once, only when   *)
(* the loop has gone through every listed folder, never in a run in which  *)
(* the listing, a selection or an archive write failed, and before         *)
(* writer.finish is called.                                                *)
C16_SummaryOnce ==
    []( LET summary == SummaryLogged
        IN  /\ \A l \in DOMAIN log :
                  log[l].event \in {"completed", "total"} =>
                      \A m \in 1..(l - 1) : log[m].event # log[l].event
            /\ summary =>
                  /\ entry = "main"
                  /\ LoopCompleted
                  /\ Cardinality(Made("examine")) = Len(Listing)
            /\ pc = "finish" => summary /\ Made("finish") = {}
            /\ \A k \in DOMAIN calls :
                  LET c == calls[k]
                  IN  /\ c.op = "finish" => summary
                      /\ (~c.ok /\ c.op \in {"list", "examine", "append_data"}) =>
                            ~summary /\ (pc = "done" => result.kind = "Err") )

(* The summary has been logged, finish not yet called, in a run where a    *)
(* fetch failed and another folder was copied.                             *)
C16_Witness ==
    /\ pc = "finish"
    /\ SummaryLogged
    /\ Failed("fetch") # {}
    /\ archive # <<>>

----------------------------------------------------------------------------
(* A credential is missing from both the arguments and the environment. *)
CredentialMissing ==
    \/ ~auth.argUsername.some /\ ~auth.envUsername.some
    \/ ~auth.argPassword.some /\ ~auth.envPassword.some

(* C17: in main, with a credential missing the process exits with status 1 *)
(* having made no call at all (no login, no open of the output file, no    *)
(* list, select or fetch); the output file is opened only after a login    *)
(* that succeeded, and a failed login is the run's last call and its       *)
(* result.                                                                 *)
C17_OutputAfterLogin ==
    []( /\ (entry = "main" /\ pc # "credentials" /\ CredentialMissing
                /\ \A k \in DOMAIN calls : calls[k].op # "login") =>
              /\ result = Exit(1)
              /\ pc = "done"
              /\ calls = <<>>
              /\ archive = <<>>
        /\ result.kind = "Exit" => result.total = 1 /\ CredentialMissing /\ calls = <<>>
        /\ \A k \in DOMAIN calls :
              LET c == calls[k]
              IN  /\ c.op = "open" =>
                        \E l \in 1..(k - 1) : calls[l].op = "login" /\ calls[l].ok
                  /\ (entry = "main" /\ c.op \in {"list", "examine", "fetch"}) =>
                        \E o \in 1..(k - 1) : calls[o].op = "open" /\ calls[o].ok
                  /\ (c.op = "login" /\ ~c.ok) =>
                        /\ result = Err("login")
                        /\ Len(calls) = 1 )

(* The username is given but the password is not: exit(1). *)
C17_Witness ==
    /\ result = Exit(1)
    /\ auth.username.some
    /\ ~auth.password.some
    /\ calls = <<>>

====
